---- MODULE Spec2Model ----
(***************************************************************************)
(* A model of entity_generator.py: the casing transform, the type mapper,  *)
(* the schema reader's row conversion, the entity renderer, configuration  *)
(* loading, and the orchestrator generate_entities driven by main().       *)
(*                                                                         *)
(* Text is modelled as a sequence of one-character strings wherever the    *)
(* code looks inside it (identifiers: split, title); a type name, which    *)
(* the code only lower-cases and compares, is an atomic string.  An        *)
(* Optional[int] is <<>> for None and <<n>> for the integer n.             *)
(***************************************************************************)
EXTENDS Integers, Sequences, FiniteSets, TLC

VARIABLES
    pc,                 \* position of the run being modelled
    snake_str,          \* to_pascal_case: the argument
    pascal,             \* to_pascal_case: the value returned
    row,                \* get_columns: one catalog row
    column,             \* the ColumnInfo built from it / passed to get_csharp_type
    cs_type,            \* get_csharp_type: the value returned
    table_name,         \* generate_class: the table
    columns,            \* generate_class: the ordered ColumnInfo list
    attribute_config,   \* EntityGenerator.attribute_config
    lines,              \* generate_class: the lines of the returned text
    config_exists,      \* whether the configuration file exists
    config,             \* the configuration file: section -> (key -> value)
    generate_sql,       \* EntityGenerator.generate_sql
    db,                 \* the database: its base tables, in listing order
    conn,               \* local conn of generate_entities: "unbound", "open", "closed"
    cursor,             \* local cursor of generate_entities: "unbound", "open", "closed"
    connect_attempts,   \* number of calls of mysql.connector.connect
    tables,             \* local tables of generate_entities
    idx,                \* position of the for loop over tables
    files,              \* the output directory: a set of [path, content]
    error,              \* the exception in flight ("none" when there is none)
    printed             \* what main printed from its except clauses

vars == <<pc, snake_str, pascal, row, column, cs_type, table_name, columns,
          attribute_config, lines, config_exists, config, generate_sql, db,
          conn, cursor, connect_attempts, tables, idx, files, error, printed>>

caseVars == <<snake_str, pascal>>
typeVars == <<row, column, cs_type>>
classVars == <<table_name, columns, lines>>
runVars == <<config_exists, config, generate_sql, db, conn, cursor,
             connect_attempts, tables, idx, files, error, printed>>

\* Value of a variable the specification at hand does not use.
Unused == "unused"

None == <<>>

Some(n) == <<n>>

(***************************************************************************)
(* Characters and str.title / str.split / str.join                         *)
(***************************************************************************)

\* Longest identifier enumerated for the casing transform.
MaxLen == 3

LowerLetters == {"a", "b"}

UpperLetters == {"A", "B"}

Alphabet == LowerLetters \cup UpperLetters \cup {"_", "1"}

IsCased(c) == c \in LowerLetters \cup UpperLetters

upper(c) == CASE c = "a" -> "A" [] c = "b" -> "B" [] OTHER -> c

lower(c) == CASE c = "A" -> "a" [] c = "B" -> "b" [] OTHER -> c

\* str.capitalize, which a slip could call in place of str.title: the first
\* character upper-cased, every other one lower-cased.
RECURSIVE capitalize_from(_, _)
capitalize_from(word, i) ==
    IF i > Len(word) THEN <<>>
    ELSE <<(IF i = 1 THEN upper(word[i]) ELSE lower(word[i]))>>
         \o capitalize_from(word, i + 1)

title_AsCapitalize(word) == capitalize_from(word, 1)

\* str.title: a cased character is upper-cased when the character before it
\* is not cased (or there is none) and lower-cased otherwise; any other
\* character is kept.
RECURSIVE title_from(_, _, _)
title_from(word, i, previous_is_cased) ==
    IF i > Len(word) THEN <<>>
    ELSE LET c == word[i]
             d == IF ~IsCased(c) THEN c
                  ELSE IF previous_is_cased THEN lower(c) ELSE upper(c)
         IN  <<d>> \o title_from(word, i + 1, IsCased(c))

title(word) == title_from(word, 1, FALSE)

\* str.split('_'): the segments between underscores, empty ones included.
RECURSIVE split_from(_, _, _)
split_from(s, i, current) ==
    IF i > Len(s) THEN <<current>>
    ELSE IF s[i] = "_" THEN <<current>> \o split_from(s, i + 1, <<>>)
    ELSE split_from(s, i + 1, Append(current, s[i]))

split(s) == split_from(s, 1, <<>>)

\* ''.join(word.title() for word in words)
RECURSIVE join_title(_)
join_title(words) ==
    IF words = <<>> THEN <<>>
    ELSE title(Head(words)) \o join_title(Tail(words))

to_pascal_case(s) == join_title(split(s))

\* Every identifier of 1..n characters over the alphabet.
RECURSIVE Strings(_)
Strings(n) ==
    IF n = 0 THEN {<<>>}
    ELSE LET shorter == Strings(n - 1)
         IN  shorter \cup {Append(s, c) : s \in shorter, c \in Alphabet}

Identifiers == Strings(MaxLen) \ {<<>>}

(***************************************************************************)
(* Specification of the casing transform alone                             *)
(***************************************************************************)

InitCase ==
    /\ pc = "case_call"
    /\ snake_str \in Identifiers
    /\ pascal = Unused
    /\ row = Unused /\ column = Unused /\ cs_type = Unused
    /\ table_name = Unused /\ columns = Unused /\ lines = Unused
    /\ attribute_config = Unused
    /\ config_exists = Unused /\ config = Unused /\ generate_sql = Unused
    /\ db = Unused /\ conn = Unused /\ cursor = Unused
    /\ connect_attempts = Unused /\ tables = Unused /\ idx = Unused
    /\ files = Unused /\ error = Unused /\ printed = Unused

ToPascalCase ==
    /\ pc = "case_call"
    /\ pascal' = to_pascal_case(snake_str)
    /\ pc' = "case_done"
    /\ UNCHANGED <<snake_str, typeVars, classVars, attribute_config, runVars>>

\* The identifier returned is passed to the transform again.
Reapply ==
    /\ pc = "case_done"
    /\ snake_str' = pascal
    /\ pascal' = Unused
    /\ pc' = "case_call"
    /\ UNCHANGED <<typeVars, classVars, attribute_config, runVars>>

NextCase == ToPascalCase \/ Reapply

SpecCase == InitCase /\ [][NextCase]_vars

\* A PascalCase identifier: letters and digits only, the first an upper-case
\* letter (UserProfile, Orders, A1).
IsPascalCase(p) ==
    /\ Len(p) >= 1
    /\ p[1] \in UpperLetters
    /\ \A i \in 1..Len(p) : p[i] /= "_"

\* An identifier without underscores in which a letter is upper-case exactly
\* when it starts a run of letters (Orders, Userprofile, A1B).
IsTitleCased(p) ==
    \A i \in 1..Len(p) :
        /\ p[i] /= "_"
        /\ IsCased(p[i]) =>
              (p[i] \in UpperLetters <=> (i = 1 \/ ~IsCased(p[i - 1])))

\* C6 (as stated): to_pascal_case returns every PascalCase identifier
\* unchanged.
C6_IdempotentOnPascalCase ==
    (pc = "case_done" /\ IsPascalCase(snake_str)) => pascal = snake_str

\* C6 (amended): to_pascal_case returns its argument unchanged exactly when
\* the argument has no underscore and its letters are upper-case exactly at
\* the start of each run of letters.
C6_IdempotentOnTitleCased ==
    pc = "case_done" => (pascal = snake_str <=> IsTitleCased(snake_str))

C6_Witness ==
    /\ pc = "case_done"
    /\ Len(snake_str) >= 2
    /\ IsPascalCase(snake_str)
    /\ IsTitleCased(snake_str)
    /\ pascal = snake_str

(***************************************************************************)
(* ColumnInfo, the schema reader's row conversion and the type mapper      *)
(***************************************************************************)

\* Largest length / display width enumerated for a column.
MaxWidth == 2

\* str.lower on the type names enumerated.
lower_name(s) ==
    CASE s = "TINYINT" -> "tinyint"
      [] s = "INT" -> "int"
      [] s = "VARCHAR" -> "varchar"
      [] OTHER -> s

\* The dict type_mapping of get_csharp_type.
type_mapping ==
    [bit |-> "bool", tinyint |-> "byte", smallint |-> "short", int |-> "int",
     bigint |-> "long", decimal |-> "decimal", float |-> "float",
     double |-> "double", datetime |-> "DateTime", date |-> "DateTime",
     timestamp |-> "DateTime", time |-> "TimeSpan", char |-> "string",
     varchar |-> "string", text |-> "string", longtext |-> "string",
     json |-> "string"]

\* type_mapping.get(base_type, 'object')
mapping_get(base_type) ==
    IF base_type \in DOMAIN type_mapping THEN type_mapping[base_type]
    ELSE "object"

\* The returned type is the sequence of its tokens: <<"int">> is "int" and
\* <<"int", "?">> is "int?".
get_csharp_type_NoBooleanCase(col) ==
    LET base_type == lower_name(col.data_type)
        t == mapping_get(base_type)
    IN  IF col.is_nullable /\ t /= "string" THEN <<t, "?">> ELSE <<t>>

get_csharp_type_DecorateString(col) ==
    LET base_type == lower_name(col.data_type)
        t == mapping_get(base_type)
    IN  IF base_type = "tinyint" /\ col.max_length = Some(1)
        THEN (IF ~col.is_nullable THEN <<"bool">> ELSE <<"bool", "?">>)
        ELSE IF col.is_nullable THEN <<t, "?">> ELSE <<t>>

get_csharp_type(col) ==
    LET base_type == lower_name(col.data_type)
        t == mapping_get(base_type)
    IN  IF base_type = "tinyint" /\ col.max_length = Some(1)
        THEN (IF ~col.is_nullable THEN <<"bool">> ELSE <<"bool", "?">>)
        ELSE IF col.is_nullable /\ t /= "string" THEN <<t, "?">> ELSE <<t>>

\* A COLUMN_TYPE string such as "tinyint(1)" or "int" is its type name and
\* its optional parenthesised number.
ColumnType(name, width) == [name |-> name, width |-> width]

\* "tinyint" in column_type, after column_type = row[8].lower(); of the type
\* names enumerated only tinyint holds that substring.
contains_tinyint(column_type) == lower_name(column_type.name) = "tinyint"

\* re.search(r'tinyint\((\d+)\)', column_type): the number when there is one.
search_tinyint_width(column_type) ==
    IF contains_tinyint(column_type) THEN column_type.width ELSE None

\* "auto_increment" in row[4]; of the EXTRA values enumerated only
\* "auto_increment" itself holds that substring.
contains_auto_increment(extra) == extra = "auto_increment"

\* The body of the loop over cursor.fetchall() in get_columns.
column_from_row(r) ==
    LET max_length ==
            IF contains_tinyint(r.column_type)
            THEN search_tinyint_width(r.column_type)
            ELSE r.character_maximum_length
    IN  [name |-> r.column_name,
         data_type |-> r.data_type,
         is_nullable |-> (r.is_nullable = "YES"),
         is_primary_key |-> (r.column_key = "PRI"),
         is_auto_increment |-> contains_auto_increment(r.extra),
         max_length |-> max_length,
         numeric_precision |-> r.numeric_precision,
         numeric_scale |-> r.numeric_scale]

RECURSIVE get_columns(_)
get_columns(rows) ==
    IF rows = <<>> THEN <<>>
    ELSE <<column_from_row(Head(rows))>> \o get_columns(Tail(rows))

IntegerTypes == {"tinyint", "smallint", "int", "bigint"}

StringTypes == {"char", "varchar", "text", "longtext", "json"}

\* Type names given to the type mapper; geometry is in no table of the code.
DataTypes ==
    DOMAIN type_mapping \cup {"TINYINT", "INT", "VARCHAR", "geometry"}

Widths == {None} \cup {Some(n) : n \in 0..MaxWidth}

ColumnName == <<"a", "_", "b">>

\* ColumnInfo values built directly by a caller of get_csharp_type.
ColumnInfos ==
    [name : {ColumnName}, data_type : DataTypes, is_nullable : BOOLEAN,
     is_primary_key : BOOLEAN, is_auto_increment : BOOLEAN,
     max_length : Widths, numeric_precision : {None}, numeric_scale : {None}]

\* Rows of INFORMATION_SCHEMA.COLUMNS: DATA_TYPE is lower-case, COLUMN_TYPE
\* starts with it, CHARACTER_MAXIMUM_LENGTH is NULL but for character types.
CatalogRows ==
    { [column_name |-> ColumnName, data_type |-> t, is_nullable |-> n,
       column_key |-> k, extra |-> e, character_maximum_length |-> c,
       numeric_precision |-> None, numeric_scale |-> None,
       column_type |-> ColumnType(t, w)] :
        t \in {"tinyint", "smallint", "int", "bigint", "varchar", "text", "datetime"},
        n \in {"YES", "NO"}, k \in {"PRI", ""}, e \in {"auto_increment", "", "on update CURRENT_TIMESTAMP"},
        c \in Widths, w \in Widths }

RealRows ==
    { r \in CatalogRows :
        /\ (r.data_type \in StringTypes) <=> (r.character_maximum_length /= None)
        /\ r.data_type \in {"text", "datetime"} => r.column_type.width = None }

InitType ==
    /\ \/ /\ pc = "type_row"
          /\ row \in RealRows
          /\ column = Unused
       \/ /\ pc = "type_column"
          /\ row = Unused
          /\ column \in ColumnInfos
    /\ cs_type = Unused
    /\ snake_str = Unused /\ pascal = Unused
    /\ table_name = Unused /\ columns = Unused /\ lines = Unused
    /\ attribute_config = Unused
    /\ config_exists = Unused /\ config = Unused /\ generate_sql = Unused
    /\ db = Unused /\ conn = Unused /\ cursor = Unused
    /\ connect_attempts = Unused /\ tables = Unused /\ idx = Unused
    /\ files = Unused /\ error = Unused /\ printed = Unused

\* get_columns on one fetched row.
GetColumnsRow ==
    /\ pc = "type_row"
    /\ column' = column_from_row(row)
    /\ pc' = "type_column"
    /\ UNCHANGED <<row, cs_type, caseVars, classVars, attribute_config, runVars>>

GetCsharpType ==
    /\ pc = "type_column"
    /\ cs_type' = get_csharp_type(column)
    /\ pc' = "type_done"
    /\ UNCHANGED <<row, column, caseVars, classVars, attribute_config, runVars>>

NextType == GetColumnsRow \/ GetCsharpType

SpecType == InitType /\ [][NextType]_vars

Decorated(t) == t[Len(t)] = "?"

BoolOf(col) == IF col.is_nullable THEN <<"bool", "?">> ELSE <<"bool">>

\* C2 (as stated): every column of an integer type (tinyint, smallint, int,
\* bigint) whose max_length is exactly 1 is mapped to bool, or bool? when
\* nullable.
C2_AnyIntegerWidthOneIsBool ==
    (/\ pc = "type_done"
     /\ lower_name(column.data_type) \in IntegerTypes
     /\ column.max_length = Some(1))
        => cs_type = BoolOf(column)

\* C2 (amended): a tinyint column whose max_length is exactly 1 is mapped to
\* bool, or bool? when nullable; smallint, int and bigint columns are mapped
\* to short, int and long whatever their max_length.
C2_TinyintWidthOneIsBool ==
    pc = "type_done" =>
        /\ (lower_name(column.data_type) = "tinyint" /\ column.max_length = Some(1))
              => cs_type = BoolOf(column)
        /\ lower_name(column.data_type) \in IntegerTypes \ {"tinyint"}
              => cs_type[1] = type_mapping[lower_name(column.data_type)]

C2_Witness ==
    /\ pc = "type_done"
    /\ column.data_type = "tinyint"
    /\ column.max_length = Some(1)
    /\ column.is_nullable
    /\ cs_type = <<"bool", "?">>

\* C5: the returned type ends in '?' exactly when the column is nullable and
\* the type is not string; a char, varchar, text, longtext or json column is
\* returned as plain string, nullable or not.
C5_NullableDecoration ==
    pc = "type_done" =>
        /\ Decorated(cs_type) <=> (column.is_nullable /\ cs_type[1] /= "string")
        /\ lower_name(column.data_type) \in StringTypes => cs_type = <<"string">>

C5_Witness ==
    /\ pc = "type_done"
    /\ column.is_nullable
    /\ lower_name(column.data_type) \in StringTypes
    /\ cs_type = <<"string">>

(***************************************************************************)
(* The entity renderer generate_class                                      *)
(*                                                                         *)
(* A line of the text is [kind, type, arg]: kind names the f-string or     *)
(* literal the line comes from, arg is the text put into it, and type is   *)
(* the type of a property line (empty elsewhere).                          *)
(***************************************************************************)

\* Most columns of a table given to the renderer.
MaxColumns == 2

Line(kind, arg) == [kind |-> kind, type |-> <<>>, arg |-> arg]

Digits == <<"0", "1", "2", "3", "4", "5", "6", "7", "8", "9">>

\* The decimal text of a natural number, as an f-string renders it.
RECURSIVE decimal(_)
decimal(n) ==
    IF n < 10 THEN <<Digits[n + 1]>>
    ELSE decimal(n \div 10) \o <<Digits[(n % 10) + 1]>>

\* sorted() puts the three using lines in this order: '.' sorts before ';'.
UsingOrder ==
    <<"System.ComponentModel.DataAnnotations.Schema",
      "System.ComponentModel.DataAnnotations",
      "System">>

using_statements(cfg) ==
    {"System"}
    \cup (IF cfg.use_key \/ cfg.use_required \/ cfg.use_maxlength
          THEN {"System.ComponentModel.DataAnnotations"} ELSE {})
    \cup (IF cfg.use_column \/ cfg.use_table \/ cfg.use_database_generated
          THEN {"System.ComponentModel.DataAnnotations.Schema"} ELSE {})

RECURSIVE using_lines(_, _)
using_lines(order, present) ==
    IF order = <<>> THEN <<>>
    ELSE (IF Head(order) \in present THEN <<Line("using", <<Head(order)>>)>>
          ELSE <<>>)
         \o using_lines(Tail(order), present)

\* Python truth of an Optional[int]: None and 0 are false.
truthy(optional) == optional /= None /\ optional[1] /= 0

PropertyLine(col) ==
    [kind |-> "property", type |-> get_csharp_type(col),
     arg |-> to_pascal_case(col.name)]

property_lines_ColumnAlways(col, cfg) ==
    (IF col.is_primary_key /\ cfg.use_key THEN <<Line("Key", <<>>)>> ELSE <<>>)
    \o (IF col.is_auto_increment /\ cfg.use_database_generated
        THEN <<Line("DatabaseGenerated", <<>>)>> ELSE <<>>)
    \o <<Line("Column", col.name)>>
    \o (IF ~col.is_nullable /\ col.data_type /= "string" /\ cfg.use_required
        THEN <<Line("Required", <<>>)>> ELSE <<>>)
    \o (IF truthy(col.max_length) /\ col.data_type \in {"varchar", "char"}
           /\ cfg.use_maxlength
        THEN <<Line("MaxLength", decimal(col.max_length[1]))>> ELSE <<>>)
    \o <<PropertyLine(col), Line("blank", <<>>)>>

property_lines_RequiredFirst(col, cfg) ==
    (IF col.is_primary_key /\ cfg.use_key THEN <<Line("Key", <<>>)>> ELSE <<>>)
    \o (IF col.is_auto_increment /\ cfg.use_database_generated
        THEN <<Line("DatabaseGenerated", <<>>)>> ELSE <<>>)
    \o (IF ~col.is_nullable /\ col.data_type /= "string" /\ cfg.use_required
        THEN <<Line("Required", <<>>)>> ELSE <<>>)
    \o (IF cfg.use_column THEN <<Line("Column", col.name)>> ELSE <<>>)
    \o (IF truthy(col.max_length) /\ col.data_type \in {"varchar", "char"}
           /\ cfg.use_maxlength
        THEN <<Line("MaxLength", decimal(col.max_length[1]))>> ELSE <<>>)
    \o <<PropertyLine(col), Line("blank", <<>>)>>

\* The body of the loop over columns: the attributes, the property, a blank.
property_lines(col, cfg) ==
    (IF col.is_primary_key /\ cfg.use_key THEN <<Line("Key", <<>>)>> ELSE <<>>)
    \o (IF col.is_auto_increment /\ cfg.use_database_generated
        THEN <<Line("DatabaseGenerated", <<>>)>> ELSE <<>>)
    \o (IF cfg.use_column THEN <<Line("Column", col.name)>> ELSE <<>>)
    \o (IF ~col.is_nullable /\ col.data_type /= "string" /\ cfg.use_required
        THEN <<Line("Required", <<>>)>> ELSE <<>>)
    \o (IF truthy(col.max_length) /\ col.data_type \in {"varchar", "char"}
           /\ cfg.use_maxlength
        THEN <<Line("MaxLength", decimal(col.max_length[1]))>> ELSE <<>>)
    \o <<PropertyLine(col), Line("blank", <<>>)>>

RECURSIVE all_property_lines(_, _)
all_property_lines(cols, cfg) ==
    IF cols = <<>> THEN <<>>
    ELSE property_lines(Head(cols), cfg) \o all_property_lines(Tail(cols), cfg)

generate_class(table, cols, cfg, namespace) ==
    using_lines(UsingOrder, using_statements(cfg))
    \o <<Line("blank", <<>>), Line("namespace", namespace), Line("open_namespace", <<>>)>>
    \o (IF cfg.use_table THEN <<Line("Table", table)>> ELSE <<>>)
    \o <<Line("class", to_pascal_case(table)), Line("open_class", <<>>)>>
    \o all_property_lines(cols, cfg)
    \o <<Line("close_class", <<>>), Line("close_namespace", <<>>)>>

AttributeConfigs ==
    [use_key : BOOLEAN, use_required : BOOLEAN, use_column : BOOLEAN,
     use_maxlength : BOOLEAN, use_table : BOOLEAN,
     use_database_generated : BOOLEAN]

\* The value of Generator.namespace in the configuration files enumerated.
Namespace == <<"App">>

\* Columns as get_columns builds them: an int, a varchar(MaxWidth) and a
\* tinyint(1) column, each nullable or not, each a plain column or the
\* auto-increment primary key.
ClassColumns ==
    { column_from_row(
        [column_name |-> ColumnName, data_type |-> t,
         is_nullable |-> n, column_key |-> k,
         extra |-> (IF k = "PRI" THEN "auto_increment" ELSE ""),
         character_maximum_length |-> (IF t = "varchar" THEN Some(MaxWidth) ELSE None),
         numeric_precision |-> None, numeric_scale |-> None,
         column_type |-> ColumnType(t, IF t = "int" THEN None
                                       ELSE IF t = "varchar" THEN Some(MaxWidth)
                                       ELSE Some(1))]) :
        t \in {"int", "varchar", "tinyint"}, n \in {"YES", "NO"}, k \in {"PRI", ""} }

RECURSIVE SeqsUpTo(_, _)
SeqsUpTo(S, n) ==
    IF n = 0 THEN {<<>>}
    ELSE LET shorter == SeqsUpTo(S, n - 1)
         IN  shorter \cup {Append(s, x) : s \in shorter, x \in S}

InitClass ==
    /\ pc = "class_call"
    /\ table_name = <<"a", "_", "b">>
    /\ columns \in SeqsUpTo(ClassColumns, MaxColumns)
    /\ attribute_config \in AttributeConfigs
    /\ lines = <<>>
    /\ snake_str = Unused /\ pascal = Unused
    /\ row = Unused /\ column = Unused /\ cs_type = Unused
    /\ config_exists = Unused /\ config = Unused /\ generate_sql = Unused
    /\ db = Unused /\ conn = Unused /\ cursor = Unused
    /\ connect_attempts = Unused /\ tables = Unused /\ idx = Unused
    /\ files = Unused /\ error = Unused /\ printed = Unused

GenerateClass ==
    /\ pc = "class_call"
    /\ lines' = generate_class(table_name, columns, attribute_config, Namespace)
    /\ pc' = "class_done"
    /\ UNCHANGED <<table_name, columns, attribute_config, caseVars, typeVars, runVars>>

NextClass == GenerateClass

SpecClass == InitClass /\ [][NextClass]_vars

AttributeKinds ==
    {"Key", "DatabaseGenerated", "Column", "Required", "MaxLength"}

\* The place of a line of a property in the order of the claim.
Rank(kind) ==
    CASE kind = "Key" -> 1
      [] kind = "DatabaseGenerated" -> 2
      [] kind = "Column" -> 3
      [] kind = "Required" -> 4
      [] kind = "MaxLength" -> 5
      [] kind = "property" -> 6
      [] OTHER -> 0

\* The indices of the property lines of a text, ascending.
RECURSIVE PropertyIndices(_, _)
PropertyIndices(ls, i) ==
    IF i > Len(ls) THEN <<>>
    ELSE (IF ls[i].kind = "property" THEN <<i>> ELSE <<>>)
         \o PropertyIndices(ls, i + 1)

\* The lines emitted for the k-th property: what follows the class's opening
\* brace, or the blank line after the property before, up to the declaration.
Block(ls, k) ==
    LET props == PropertyIndices(ls, 1)
        open == CHOOSE i \in 1..Len(ls) : ls[i].kind = "open_class"
        first == IF k = 1 THEN open + 1 ELSE props[k - 1] + 2
    IN  SubSeq(ls, first, props[k])

Kinds(ls) == {ls[i].kind : i \in 1..Len(ls)}

AllDisabled(cfg) ==
    ~(cfg.use_key \/ cfg.use_required \/ cfg.use_column \/ cfg.use_maxlength
      \/ cfg.use_table \/ cfg.use_database_generated)

OneBlockPerColumn ==
    Len(PropertyIndices(lines, 1)) = Len(columns)

\* C3 (as stated): the [Required] line is emitted for a column if and only if
\* the column is not nullable, the type get_csharp_type maps it to is not
\* string, and use_required is on.
C3_RequiredIffNotNullableNotString ==
    pc = "class_done" =>
        /\ OneBlockPerColumn
        /\ \A k \in 1..Len(columns) :
              ("Required" \in Kinds(Block(lines, k)))
                <=> (/\ ~columns[k].is_nullable
                     /\ get_csharp_type(columns[k])[1] /= "string"
                     /\ attribute_config.use_required)

\* C8 (as stated): with the six toggles off the text has no attribute line
\* and no using line, and each property has the type of get_csharp_type.
C8_AllDisabledNoUsing ==
    (pc = "class_done" /\ AllDisabled(attribute_config)) =>
        /\ Kinds(lines) \cap (AttributeKinds \cup {"Table"}) = {}
        /\ "using" \notin Kinds(lines)
        /\ OneBlockPerColumn
        /\ \A k \in 1..Len(columns) :
              lines[PropertyIndices(lines, 1)[k]].type = get_csharp_type(columns[k])

\* C8 (amended): with the six toggles off the text has no attribute line, its
\* only using line is "using System;", and each property has the type of
\* get_csharp_type.
C8_AllDisabledOnlyUsingSystem ==
    (pc = "class_done" /\ AllDisabled(attribute_config)) =>
        /\ Kinds(lines) \cap (AttributeKinds \cup {"Table"}) = {}
        /\ SelectSeq(lines, LAMBDA l : l.kind = "using") = <<Line("using", <<"System">>)>>
        /\ OneBlockPerColumn
        /\ \A k \in 1..Len(columns) :
              /\ Block(lines, k) = <<lines[PropertyIndices(lines, 1)[k]]>>
              /\ lines[PropertyIndices(lines, 1)[k]].type = get_csharp_type(columns[k])

C8_Witness ==
    /\ pc = "class_done"
    /\ AllDisabled(attribute_config)
    /\ Len(columns) = MaxColumns
    /\ \E k \in 1..Len(columns) :
          columns[k].is_primary_key /\ ~columns[k].is_nullable
    /\ Kinds(lines) \cap AttributeKinds = {}

\* C9: the lines of every property are in the order [Key],
\* [DatabaseGenerated], [Column], [Required], [MaxLength], declaration,
\* whatever the toggles and the column: each is an attribute or the
\* declaration, each comes before every line of higher place, the declaration
\* is the last, and the attributes present are those the toggles and flags
\* select.
C9_FixedAttributeOrder ==
    pc = "class_done" =>
        /\ OneBlockPerColumn
        /\ \A k \in 1..Len(columns) :
              LET b == Block(lines, k)
              IN  /\ Len(b) >= 1
                  /\ b[Len(b)].kind = "property"
                  /\ \A i \in 1..Len(b) : Rank(b[i].kind) >= 1
                  /\ \A i, j \in 1..Len(b) :
                        i < j => Rank(b[i].kind) < Rank(b[j].kind)
                  /\ ("Key" \in Kinds(b))
                        <=> (columns[k].is_primary_key /\ attribute_config.use_key)
                  /\ ("Column" \in Kinds(b)) <=> attribute_config.use_column

C9_Witness ==
    /\ pc = "class_done"
    /\ Len(columns) = MaxColumns
    /\ \E k \in 1..Len(columns) :
          {"Key", "DatabaseGenerated", "Column", "Required"} \subseteq Kinds(Block(lines, k))
    /\ \E k \in 1..Len(columns) :
          {"Column", "MaxLength"} \subseteq Kinds(Block(lines, k))

(***************************************************************************)
(* The configuration file and EntityGenerator.__init__                     *)
(*                                                                         *)
(* A configuration file is a function from the names of its sections to    *)
(* functions from the keys of the section to their values.  Messages       *)
(* written by log() are not part of the state.                             *)
(***************************************************************************)

required_sections == <<"Database", "Generator">>

required_db_params == <<"host", "database", "user", "password">>

required_gen_params == <<"output_directory", "namespace">>

Range(s) == {s[i] : i \in 1..Len(s)}

\* The key of the Attributes section read into each field of AttributeConfig.
attribute_keys ==
    [use_key |-> "use_key_attribute",
     use_required |-> "use_required_attribute",
     use_column |-> "use_column_attribute",
     use_maxlength |-> "use_maxlength_attribute",
     use_table |-> "use_table_attribute",
     use_database_generated |-> "use_databasegenerated_attribute"]

\* SectionProxy.getboolean(key, fallback) on the values "true" and "false".
getboolean(section, key, fallback) ==
    IF key \in DOMAIN section THEN section[key] = "true" ELSE fallback

load_configuration_NoPasswordCheck(exists, cfg) ==
    IF ~exists THEN "ConfigurationError"
    ELSE IF \E s \in Range(required_sections) : s \notin DOMAIN cfg
    THEN "ConfigurationError"
    ELSE IF \E p \in Range(required_db_params) \ {"password"} :
                p \notin DOMAIN cfg["Database"]
    THEN "ConfigurationError"
    ELSE IF \E p \in Range(required_gen_params) : p \notin DOMAIN cfg["Generator"]
    THEN "ConfigurationError"
    ELSE "none"

\* _load_configuration: the exception it raises, "none" when it returns.
load_configuration(exists, cfg) ==
    IF ~exists THEN "ConfigurationError"
    ELSE IF \E s \in Range(required_sections) : s \notin DOMAIN cfg
    THEN "ConfigurationError"
    ELSE IF \E p \in Range(required_db_params) : p \notin DOMAIN cfg["Database"]
    THEN "ConfigurationError"
    ELSE IF \E p \in Range(required_gen_params) : p \notin DOMAIN cfg["Generator"]
    THEN "ConfigurationError"
    ELSE "none"

\* _load_attribute_config: the exception it raises, "none" when it returns.
\* Without an Attributes section attr_config is the dict {}, which has no
\* getboolean: the first call raises AttributeError.
load_attribute_config_error(cfg) ==
    IF "Attributes" \in DOMAIN cfg THEN "none" ELSE "AttributeError"

\* _load_attribute_config: the AttributeConfig returned when none is raised.
load_attribute_config(cfg) ==
    [f \in DOMAIN attribute_keys |->
        getboolean(cfg["Attributes"], attribute_keys[f], TRUE)]

DbValues ==
    [host |-> "localhost", database |-> "shop", user |-> "root",
     password |-> "secret"]

GenValues ==
    [output_directory |-> "out", namespace |-> "App", generate_sql |-> "true"]

DbSections == {[k \in K |-> DbValues[k]] : K \in SUBSET DOMAIN DbValues}

GenSections == {[k \in K |-> GenValues[k]] : K \in SUBSET DOMAIN GenValues}

AttrKeys == {attribute_keys[f] : f \in DOMAIN attribute_keys}

AttrSections == UNION {[K -> {"true", "false"}] : K \in SUBSET AttrKeys}

\* An absent section is <<>>, a present one <<section>>.
Optional(S) == {<<>>} \cup {<<x>> : x \in S}

MkConfig(d, g, a) ==
    LET present == (IF d /= <<>> THEN {"Database"} ELSE {})
                   \cup (IF g /= <<>> THEN {"Generator"} ELSE {})
                   \cup (IF a /= <<>> THEN {"Attributes"} ELSE {})
    IN  [s \in present |->
            CASE s = "Database" -> d[1]
              [] s = "Generator" -> g[1]
              [] OTHER -> a[1]]

ConfigFiles(attrs) ==
    {MkConfig(d, g, a) :
        d \in Optional(DbSections), g \in Optional(GenSections), a \in attrs}

\* The file create_default_config writes.
DefaultConfig ==
    [Database |-> [host |-> "localhost", database |-> "your_database_name",
                   user |-> "username", password |-> "your_password"],
     Generator |-> [output_directory |-> "./GeneratedEntities",
                    namespace |-> "Write.Your.Namespace",
                    language |-> "csharp"],
     Attributes |-> [k \in AttrKeys |-> "true"]]

NoConfig == [s \in {} |-> <<>>]

NoFiles == [p \in {} |-> <<>>]

\* main, lines 400-411: without a configuration file a default one is
\* written and main returns.
MainStart ==
    /\ pc = "start"
    /\ IF ~config_exists
       THEN /\ config_exists' = TRUE
            /\ config' = DefaultConfig
            /\ printed' = "Configuration file not found"
            /\ pc' = "done"
       ELSE /\ pc' = "construct"
            /\ UNCHANGED <<config_exists, config, printed>>
    /\ UNCHANGED <<caseVars, typeVars, classVars, attribute_config, generate_sql,
                   db, conn, cursor, connect_attempts, tables, idx, files, error>>

\* EntityGenerator.__init__, called from main.
Construct ==
    /\ pc = "construct"
    /\ LET e1 == load_configuration(config_exists, config)
           e2 == IF e1 /= "none" THEN e1 ELSE load_attribute_config_error(config)
       IN  IF e2 /= "none"
           THEN /\ error' = e2
                /\ pc' = "except"
                /\ UNCHANGED <<attribute_config, generate_sql>>
           ELSE /\ attribute_config' = load_attribute_config(config)
                /\ generate_sql' = getboolean(config["Generator"], "generate_sql", FALSE)
                /\ pc' = "connect"
                /\ UNCHANGED error
    /\ UNCHANGED <<caseVars, typeVars, classVars, config_exists, config, db,
                   conn, cursor, connect_attempts, tables, idx, files, printed>>

\* main, lines 421-424.
MainExcept ==
    /\ pc = "except"
    /\ printed' = IF error = "ConfigurationError" THEN "Configuration error"
                  ELSE "Error"
    /\ pc' = "done"
    /\ UNCHANGED <<caseVars, typeVars, classVars, attribute_config, config_exists,
                   config, generate_sql, db, conn, cursor, connect_attempts,
                   tables, idx, files, error>>

InitRun(configs, dbs) ==
    /\ pc = "start"
    /\ \/ config_exists = FALSE /\ config = NoConfig
       \/ config_exists = TRUE /\ config \in configs
    /\ db \in dbs
    /\ attribute_config = "unset"
    /\ generate_sql = FALSE
    /\ conn = "unbound"
    /\ cursor = "unbound"
    /\ connect_attempts = 0
    /\ tables = <<>>
    /\ idx = 0
    /\ files = NoFiles
    /\ error = "none"
    /\ printed = "none"
    /\ columns = <<>>
    /\ lines = <<>>
    /\ table_name = Unused
    /\ snake_str = Unused /\ pascal = Unused
    /\ row = Unused /\ column = Unused /\ cs_type = Unused

\* Construction over every configuration file, with an empty database.
InitLoad == InitRun(ConfigFiles(Optional(AttrSections)), {<<>>})

NextLoad == MainStart \/ Construct \/ MainExcept

SpecLoad == InitLoad /\ [][NextLoad]_vars

\* The required sections and keys are all in the file.
RequiredPresent ==
    /\ config_exists
    /\ \A s \in Range(required_sections) : s \in DOMAIN config
    /\ \A p \in Range(required_db_params) : p \in DOMAIN config["Database"]
    /\ \A p \in Range(required_gen_params) : p \in DOMAIN config["Generator"]

KeyAbsent(k) ==
    "Attributes" \notin DOMAIN config \/ k \notin DOMAIN config["Attributes"]

Constructing == pc \in {"start", "construct"}

\* C4 (as stated): with the required keys present, construction does not
\* fail, and every toggle whose key is absent is true, whether the Attributes
\* section lacks the key or is absent altogether.
C4_AbsentTogglesDefaultTrue ==
    (RequiredPresent /\ ~Constructing) =>
        /\ error = "none"
        /\ \A f \in DOMAIN attribute_keys :
              KeyAbsent(attribute_keys[f]) => attribute_config[f] = TRUE

(***************************************************************************)
(* The orchestrator generate_entities, run by main                         *)
(*                                                                         *)
(* Every call into the database or the file system either returns or       *)
(* raises; close() of a cursor or a connection returns.                    *)
(***************************************************************************)

\* Most base tables of a database.
MaxTables == 2

\* Table names of the databases enumerated.
TableCatalog ==
    {<<"a", "_", "b">>, <<"a", "_", "_", "b">>, <<"a", "b">>,
     <<"a", "_", "1">>, <<"a", "1">>}

NoRepeat(s) == \A i, j \in 1..Len(s) : i /= j => s[i] /= s[j]

\* A schema lists each of its tables once.
Databases == {s \in SeqsUpTo(TableCatalog, MaxTables) : NoRepeat(s)}

\* The rows INFORMATION_SCHEMA.COLUMNS holds for a table, by ordinal
\* position: id int auto_increment primary key, note varchar(MaxWidth) null.
TableRows(t) ==
    <<[column_name |-> <<"i", "d">>, data_type |-> "int", is_nullable |-> "NO",
       column_key |-> "PRI", extra |-> "auto_increment",
       character_maximum_length |-> None, numeric_precision |-> None,
       numeric_scale |-> None, column_type |-> ColumnType("int", None)],
      [column_name |-> <<"n", "o", "t", "e">>, data_type |-> "varchar",
       is_nullable |-> "YES", column_key |-> "", extra |-> "",
       character_maximum_length |-> Some(MaxWidth), numeric_precision |-> None,
       numeric_scale |-> None,
       column_type |-> ColumnType("varchar", Some(MaxWidth))]>>

\* os.path.join(self.output_dir, file_name)
path_join(dir, file_name) == [dir |-> dir, name |-> file_name]

\* f"{self.to_pascal_case(table)}.cs"
class_file_name(t) == to_pascal_case(t) \o <<".cs">>

\* The default of Generator.sql_output_file.
sql_output_file == <<"database_structure.sql">>

\* open(path, 'w') and f.write(content): the file holds content alone.
write_file(fs, path, content) ==
    [p \in DOMAIN fs \cup {path} |-> IF p = path THEN content ELSE fs[p]]

RECURSIVE sql_table_parts(_)
sql_table_parts(ts) ==
    IF ts = <<>> THEN <<>>
    ELSE <<Line("sql_comment", Head(ts)), Line("sql_drop", Head(ts)),
           Line("sql_create", Head(ts)), Line("blank", <<>>)>>
         \o sql_table_parts(Tail(ts))

\* generate_sql_script; the time stamp of the header is not modelled.
generate_sql_script(ts, database) ==
    <<Line("sql_header", <<database>>)>>
    \o sql_table_parts(ts)
    \o <<Line("sql_footer", <<>>)>>

\* Where the for loop over tables goes with its index at i.
loop_pc(ts, i) == IF i > Len(ts) THEN "finally" ELSE "get_columns"

mainFrame == <<caseVars, typeVars, table_name, attribute_config, config_exists,
               config, generate_sql, db, printed>>

\* self.get_connection(), line 98.
GetConnection ==
    /\ pc = "connect"
    /\ connect_attempts' = connect_attempts + 1
    /\ \E ok \in BOOLEAN :
          IF ok
          THEN conn' = "open" /\ pc' = "cursor" /\ UNCHANGED error
          ELSE error' = "Error" /\ pc' = "finally" /\ UNCHANGED conn
    /\ UNCHANGED <<mainFrame, cursor, tables, idx, files, columns, lines>>

\* conn.cursor(), line 101.
CreateCursor ==
    /\ pc = "cursor"
    /\ \E ok \in BOOLEAN :
          IF ok
          THEN cursor' = "open" /\ pc' = "get_tables" /\ UNCHANGED error
          ELSE error' = "Error" /\ pc' = "finally" /\ UNCHANGED cursor
    /\ UNCHANGED <<mainFrame, conn, connect_attempts, tables, idx, files,
                   columns, lines>>

\* self.get_tables(cursor), line 104, and the test of generate_sql.
GetTables ==
    /\ pc = "get_tables"
    /\ \E ok \in BOOLEAN :
          IF ok
          THEN /\ tables' = db
               /\ idx' = 1
               /\ pc' = IF generate_sql THEN "sql_script" ELSE loop_pc(db, 1)
               /\ UNCHANGED error
          ELSE /\ error' = "Error"
               /\ pc' = "finally"
               /\ UNCHANGED <<tables, idx>>
    /\ UNCHANGED <<mainFrame, conn, cursor, connect_attempts, files, columns, lines>>

\* self.generate_sql_script(cursor), line 110.
GenerateSqlScript ==
    /\ pc = "sql_script"
    /\ \E ok \in BOOLEAN :
          IF ok
          THEN /\ lines' = generate_sql_script(db, config["Database"]["database"])
               /\ pc' = "sql_write"
               /\ UNCHANGED error
          ELSE /\ error' = "Error"
               /\ pc' = "finally"
               /\ UNCHANGED lines
    /\ UNCHANGED <<mainFrame, conn, cursor, connect_attempts, tables, idx, files,
                   columns>>

\* Writing the script, lines 111-114.
WriteSqlScript ==
    /\ pc = "sql_write"
    /\ \E ok \in BOOLEAN :
          IF ok
          THEN /\ files' = write_file(files,
                     path_join(config["Generator"]["output_directory"], sql_output_file),
                     lines)
               /\ pc' = loop_pc(tables, idx)
               /\ UNCHANGED error
          ELSE /\ error' = "OSError"
               /\ pc' = "finally"
               /\ UNCHANGED files
    /\ UNCHANGED <<mainFrame, conn, cursor, connect_attempts, tables, idx,
                   columns, lines>>

\* self.get_columns(cursor, table), line 122.
GetColumns ==
    /\ pc = "get_columns"
    /\ \E ok \in BOOLEAN :
          IF ok
          THEN /\ columns' = get_columns(TableRows(tables[idx]))
               /\ pc' = "write_class"
               /\ UNCHANGED error
          ELSE /\ error' = "Error"
               /\ pc' = "finally"
               /\ UNCHANGED columns
    /\ UNCHANGED <<mainFrame, conn, cursor, connect_attempts, tables, idx, files,
                   lines>>

\* Rendering the class and writing its file, lines 126-133, and the step of
\* the loop.
WriteClass ==
    /\ pc = "write_class"
    /\ \E ok \in BOOLEAN :
          IF ok
          THEN /\ files' = write_file(files,
                     path_join(config["Generator"]["output_directory"],
                               class_file_name(tables[idx])),
                     generate_class(tables[idx], columns, attribute_config,
                                    <<config["Generator"]["namespace"]>>))
               /\ idx' = idx + 1
               /\ pc' = loop_pc(tables, idx + 1)
               /\ UNCHANGED error
          ELSE /\ error' = "OSError"
               /\ pc' = "finally"
               /\ UNCHANGED <<files, idx>>
    /\ UNCHANGED <<mainFrame, conn, cursor, connect_attempts, tables, columns, lines>>

\* The finally clause, lines 145-149, after the except clauses re-raised
\* the exception in flight: with conn bound and cursor not, reading cursor
\* raises UnboundLocalError and conn.close() is not reached.
Finally ==
    /\ pc = "finally"
    /\ IF conn = "unbound"
       THEN UNCHANGED <<conn, cursor, error>>
       ELSE IF cursor = "unbound"
       THEN error' = "UnboundLocalError" /\ UNCHANGED <<conn, cursor>>
       ELSE cursor' = "closed" /\ conn' = "closed" /\ UNCHANGED error
    /\ pc' = IF error' = "none" THEN "done" ELSE "except"
    /\ UNCHANGED <<mainFrame, connect_attempts, tables, idx, files, columns, lines>>

\* The Attributes sections of the configuration files of a whole run.
RunAttrSections ==
    {<<>>, <<[k \in {} |-> "true"]>>, <<[k \in AttrKeys |-> "false"]>>}

InitMain == InitRun(ConfigFiles(RunAttrSections), Databases)

NextMain ==
    \/ MainStart
    \/ Construct
    \/ GetConnection
    \/ CreateCursor
    \/ GetTables
    \/ GenerateSqlScript
    \/ WriteSqlScript
    \/ GetColumns
    \/ WriteClass
    \/ Finally
    \/ MainExcept

SpecMain == InitMain /\ [][NextMain]_vars

\* generate_entities has returned or raised.
RunOver == pc \in {"except", "done"}

\* C1 (as stated): a run in which get_connection succeeded ends with the
\* cursor and the connection closed.
C1_ClosedOnEveryExit ==
    (RunOver /\ conn /= "unbound") => (cursor = "closed" /\ conn = "closed")

ClassFiles == {p \in DOMAIN files : p.name /= sql_output_file}

\* A run of generate_entities that returned without raising.
Succeeded == pc = "done" /\ error = "none" /\ conn = "closed"

\* C7 (as stated): a successful run over pairwise distinct table names leaves
\* one class file per table, no two tables sharing a path.
C7_OneClassFilePerTable ==
    (Succeeded /\ NoRepeat(tables)) =>
        /\ \A i, j \in 1..Len(tables) :
              i /= j => class_file_name(tables[i]) /= class_file_name(tables[j])
        /\ Cardinality(ClassFiles) = Len(tables)

\* A required section or key is missing from the configuration file.
LacksRequiredKey == config_exists /\ ~RequiredPresent

\* C10: when the configuration file lacks a required key, construction raises
\* ConfigurationError, no connection is attempted, nothing is written, and
\* main ends having printed the configuration error.
C10_MissingKeyNoConnection ==
    (LacksRequiredKey /\ pc /= "start") =>
        /\ connect_attempts = 0
        /\ conn = "unbound"
        /\ files = NoFiles
        /\ pc \in {"construct", "except", "done"}
        /\ pc \in {"except", "done"} => error = "ConfigurationError"
        /\ pc = "done" => printed = "Configuration error"

C10_Witness ==
    /\ pc = "done"
    /\ "Database" \in DOMAIN config
    /\ DOMAIN config["Database"] = {"host", "database", "user"}
    /\ "Generator" \in DOMAIN config
    /\ DOMAIN config["Generator"] = {"output_directory", "namespace"}
    /\ error = "ConfigurationError"
    /\ printed = "Configuration error"
    /\ connect_attempts = 0

====
